--------------------------- MODULE Spec2Model ---------------------------
(***************************************************************************)
(* The product scraper service of src/src/server.ts: the API-key           *)
(* middleware, the rate limiter and the POST /api/product-scraper handler, *)
(* which sequences scrapeUrl, cleanContent, getProductName, searchGoogle,  *)
(* scrapeSearchResults, selectBestImageWithVision, summarizeContent (one   *)
(* call per scraped content, joined by Promise.all) and generateObject.    *)
(*                                                                         *)
(* One action is one turn of the event loop: a pending call settles and    *)
(* the handler runs on to its next await or to its response.               *)
(*                                                                         *)
(* JavaScript values are records [t, v]: t is the value's typeof and v,    *)
(* for a string, its text as a sequence of tokens (the empty string is     *)
(* the empty sequence, concatenation is \o).                               *)
(***************************************************************************)
EXTENDS Naturals, Sequences, FiniteSets

\* Bounds of the model.
MaxResults == 8        \* longest result list the search provider returns
MaxDocs == 2           \* most results of one batch that scrape successfully
MaxImages == 1         \* most images one batch discovers
PairMaxResults == 1    \* the same three bounds when two requests are handled
PairMaxDocs == 1
PairMaxImages == 1
FairMaxDocs == 1       \* MaxDocs where every call is required to settle

\* Program constants.
TopK == 7              \* searchResults.slice(0, 7)
RateMax == 100         \* rateLimit({ max: 100 })

Reqs == {1, 2}

VARIABLES
    apiKeyEnv,   \* process.env.API_KEY
    hits,        \* the rate limiter's hit count of the current window
    method,      \* method[r]: the request's HTTP method
    body,        \* body[r]: whether express.json() can parse the body
    header,      \* header[r]: the request's X-API-Key header
    url,         \* url[r]: req.body.url
    pc,          \* pc[r]: where request r is suspended
    handlerRuns, \* handlerRuns[r]: times the route handler was entered
    frame,       \* frame[r]: the handler's local variables
    sums,        \* sums[r]: the promises of the summarizeContent calls
    all,         \* all[r]: the Promise.all over sums[r]
    order,       \* order[r]: the summarizeContent calls in the order they
                 \* settled (a history, kept where a property reads it)
    calls,       \* calls[r][f]: the arguments of each call of f made for r
    st,          \* st[r][f]: state of r's call of collaborator f
    thrown,      \* thrown[r][f]: what r's call of f threw (NoErr: nothing)
    resp         \* resp[r]: the responses sent for r, in order

vars == <<apiKeyEnv, hits, method, body, header, url, pc, handlerRuns, frame,
          sums, all, order, calls, st, thrown, resp>>

-----------------------------------------------------------------------------
\* JavaScript values

Tok(k, i) == [k |-> k, id |-> i]
Undefined == [t |-> "undefined", v |-> <<>>]
Null == [t |-> "object", v |-> <<>>]
Str(toks) == [t |-> "string", v |-> toks]
EmptyStr == Str(<<>>)

\* !x is false: of the values of the model only non-empty strings are truthy.
Truthy(x) == x.t = "string" /\ Len(x.v) > 0

\* A thrown value: an Error with its message, or anything else.
Err(m) == [isError |-> TRUE, message |-> m]
NonError == [isError |-> FALSE, message |-> ""]
NoErr == [isError |-> FALSE, message |-> "none"]
Thrown(f) == {Err(f), NonError}

Min(a, b) == IF a < b THEN a ELSE b

\* Array.prototype.slice(from, to) with 0 <= from <= to.
Slice(s, from, to) == SubSeq(s, from + 1, Min(to, Len(s)))

\* Array.prototype.join(sep) of an array of strings.
RECURSIVE Join(_, _)
Join(s, sep) ==
    IF Len(s) = 0 THEN <<>>
    ELSE IF Len(s) = 1 THEN s[1].v
    ELSE s[1].v \o sep \o Join(Tail(s), sep)

-----------------------------------------------------------------------------
\* Values of the collaborators (src/src/lib/functions is not part of the
\* sources at hand: what each may return or throw is taken from its contract)

Fns == {"scrapeUrl", "cleanContent", "getProductName", "searchGoogle",
        "scrapeSearchResults", "selectBestImageWithVision",
        "summarizeContent", "generateObject"}

\* The product names getProductName may find: two for a single request,
\* one and the same product when two requests are handled or the order of
\* settling is recorded.
Names == {Str(<<Tok("name", 1)>>), Str(<<Tok("name", 2)>>)}
PairNames == {Str(<<Tok("name", 1)>>)}
Texts == {Tok("record", 1), Tok("record", 2)}
NoObject == [text |-> Tok("record", 0), image |-> Undefined]

Returned(v) == [threw |-> FALSE, error |-> NoErr, value |-> v]
Threw(e) == [threw |-> TRUE, error |-> e, value |-> Undefined]

\* scrapeUrl: an object with a content, an object without one, nothing, or a throw.
ScrapeUrlOutcomes ==
    {Returned(ic) : ic \in
        {[defined |-> FALSE, content |-> Undefined],
         [defined |-> TRUE, content |-> Undefined],
         [defined |-> TRUE, content |-> EmptyStr],
         [defined |-> TRUE, content |-> Str(<<Tok("raw", 1)>>)]}}
    \cup {Threw(e) : e \in Thrown("scrapeUrl failed")}

CleanOutcomes(content) ==
    {Returned(Str(<<Tok("clean", 1)>>))}
    \cup {Threw(e) : e \in Thrown("cleanContent failed")}

NameOutcomes(cleaned, names) ==
    {Returned(n) : n \in names}
    \cup {Threw(e) : e \in Thrown("getProductName failed")}

\* searchGoogle: an object whose searchResults is the ordered list of the
\* first n results (result i is named by its rank i), an object without
\* searchResults, or a throw.
SearchOutcomes(query, maxn) ==
    {Returned([hasResults |-> TRUE, searchResults |-> [i \in 1..n |-> i]])
        : n \in 0..maxn}
    \cup {Returned([hasResults |-> FALSE, searchResults |-> <<>>])}
    \cup {[threw |-> TRUE, error |-> e,
           value |-> [hasResults |-> FALSE, searchResults |-> <<>>]]
            : e \in Thrown("searchGoogle failed")}

Doc(i) == [src |-> i, content |-> Str(<<Tok("doc", i)>>)]
Image(j) == Str(<<Tok("img", j)>>)

\* scrapeSearchResults: every result is scraped; a result that fails adds
\* nothing; the contents of the others are kept in the order of the results.
\* The batch itself does not fail.
ScrapeBatchOutcomes(results, name, maxd, maxi) ==
    UNION {
        {[contents |-> [k \in 1..Len(SelectSeq(results, LAMBDA x : x \in ok))
                          |-> Doc(SelectSeq(results, LAMBDA x : x \in ok)[k])],
          images |-> [j \in 1..m |-> Image(j)]]
            : m \in 0..(IF ok = {} THEN 0 ELSE maxi)}
        : ok \in {S \in SUBSET {results[k] : k \in 1..Len(results)} :
                    Cardinality(S) <= maxd}}

\* selectBestImageWithVision: one of the images, no image, or a throw.
SelectOutcomes(images, name) ==
    {Returned(images[j]) : j \in 1..Len(images)}
    \cup {Returned(Null)}
    \cup {Threw(e) : e \in Thrown("selectBestImageWithVision failed")}

\* summarizeContent: a summary, an empty string, no string, or a rejection.
SummarizeOutcomes(content) ==
    {Returned(Str(<<Tok("sum", content.v[1].id)>>)), Returned(EmptyStr),
     Returned(Null)}
    \cup {Threw(e) : e \in Thrown("summarizeContent failed")}

\* generateObject: an object of ProductSchema (its text fields stand as one
\* value, its image as whatever the model produced), or a throw.
GenerateOutcomes(input) ==
    {Returned([text |-> t, image |-> im])
        : t \in Texts, im \in {Undefined, Str(<<Tok("img", 0)>>)}}
    \cup {[threw |-> TRUE, error |-> e, value |-> NoObject]
            : e \in Thrown("generateObject failed")}

-----------------------------------------------------------------------------
\* The pieces of the handler

\* Mutant of Unauthorized: the header is only compared with API_KEY
\* (apiKey !== process.env.API_KEY).
UnauthorizedCompareOnly(apiKey, envKey) == apiKey # envKey

\* if (!apiKey || apiKey !== process.env.API_KEY)
Unauthorized(apiKey, envKey) == ~Truthy(apiKey) \/ apiKey # envKey

\* Mutant of UrlMissing: only an absent url is rejected (url === undefined).
UrlMissingOnlyUndefined(u) == u = Undefined

\* if (!url)
UrlMissing(u) == ~Truthy(u)

\* initialContent?.content
OptContent(ic) == IF ic.defined THEN ic.content ELSE Undefined

\* Mutant of NoContent: only a missing object is rejected (!initialContent).
NoContentOnlyNull(ic) == ~ic.defined

\* if (!initialContent?.content)
NoContent(ic) == ~Truthy(OptContent(ic))

\* Mutant of LimitedResults: the results are passed on unsliced.
LimitedResultsUnsliced(sr) == sr

\* searchResults.searchResults.slice(0, 7)
LimitedResults(sr) == Slice(sr, 0, TopK)

\* Mutant of SummarizeArgs: the search results are mapped, not the contents.
SummarizeArgsOfResults(f) ==
    [k \in 1..Len(f.limitedResults) |-> <<Doc(f.limitedResults[k]).content>>]

\* contents.map((result) => summarizeContent(result.content)): the calls made
SummarizeArgs(f) == [k \in 1..Len(f.contents) |-> <<f.contents[k].content>>]

\* (summary) => typeof summary === "string" && summary.length > 0
KeepSummary(summary) == summary.t = "string" /\ Len(summary.v) > 0

Sep == <<Tok("\n\n", 0)>>

\* summarizedContents.filter(...).join("\n\n")
CombinedDetails(summarized) == Join(SelectSeq(summarized, KeepSummary), Sep)

\* The prompt template with productName and combinedDetails filled in.
Prompt(name, details) ==
    <<Tok("Generate comprehensive product information for", 0)>> \o name.v
    \o <<Tok("Content:", 0)>> \o details
    \o <<Tok("Generate a detailed response including:", 0)>>

\* Mutant of SynthInput: the selected image is named in the prompt.
SynthInputWithImage(f) ==
    [model |-> "gpt-4o-mini", schema |-> "ProductSchema",
     prompt |-> Prompt(f.productName, f.combinedDetails) \o f.bestImage.v]

\* The argument of generateObject, built from the handler's locals.
SynthInput(f) ==
    [model |-> "gpt-4o-mini", schema |-> "ProductSchema",
     prompt |-> Prompt(f.productName, f.combinedDetails)]

\* Mutant of Assemble: an image the model produced is kept
\* (object.image ??= bestImage).
AssembleKeepingImage(object, bestImage) ==
    IF object.image = Undefined THEN [object EXCEPT !.image = bestImage]
    ELSE object

\* object.image = bestImage
Assemble(object, bestImage) == [object EXCEPT !.image = bestImage]

\* Mutant of Details: the message is read off whatever was thrown
\* (error.message without the instanceof test).
DetailsUnchecked(e) == e.message

\* error instanceof Error ? error.message : "Unknown error"
Details(e) == IF e.isError THEN e.message ELSE "Unknown error"

\* cors ends a preflight request with optionsSuccessStatus and no body.
R204 == [status |-> 204, error |-> "", details |-> "", object |-> NoObject]
\* The answer to a body express.json() rejects (its error has status 400).
R400Body == [status |-> 400, error |-> "Bad Request", details |-> "",
             object |-> NoObject]
R401 == [status |-> 401, error |-> "Unauthorized", details |-> "",
         object |-> NoObject]
R429 == [status |-> 429, error |-> "Too many requests", details |-> "",
         object |-> NoObject]
R400 == [status |-> 400, error |-> "URL is required", details |-> "",
         object |-> NoObject]
R500(e) == [status |-> 500, error |-> "Failed to scrape product information",
            details |-> Details(e), object |-> NoObject]
R200(object) == [status |-> 200, error |-> "", details |-> "",
                 object |-> object]

\* Promise states
Pending == [state |-> "pending", value |-> Undefined, reason |-> NoErr]
Fulfilled(v) == [state |-> "fulfilled", value |-> v, reason |-> NoErr]
Rejected(e) == [state |-> "rejected", value |-> Undefined, reason |-> e]
PromiseOf(o) == IF o.threw THEN Rejected(o.error) ELSE Fulfilled(o.value)

\* Mutant of PromiseAll: fulfilled by the first promise to fulfil (Promise.any).
PromiseAny(before, ps, k) ==
    IF before.state # "pending" THEN before
    ELSE IF ps[k].state = "fulfilled" THEN Fulfilled(Undefined)
    ELSE IF \A j \in 1..Len(ps) : ps[j].state = "rejected"
         THEN Rejected(ps[k].reason)
    ELSE before

\* Promise.all(ps): rejected with the reason of the first promise to reject,
\* fulfilled once every promise is fulfilled; once settled it stays so.
PromiseAll(before, ps, k) ==
    IF before.state # "pending" THEN before
    ELSE IF ps[k].state = "rejected" THEN Rejected(ps[k].reason)
    ELSE IF \A j \in 1..Len(ps) : ps[j].state = "fulfilled"
         THEN Fulfilled(Undefined)
    ELSE before

\* Mutant of AllValues: the values are collected as the promises settle.
AllValuesAsSettled(ps, ord) ==
    IF Len(ord) = Len(ps) THEN [i \in 1..Len(ord) |-> ps[ord[i]].value]
    ELSE [k \in 1..Len(ps) |-> ps[k].value]

\* The array a fulfilled Promise.all(ps) yields: the values of ps, in the
\* order of ps whatever the order ord in which they settled.
AllValues(ps, ord) == [k \in 1..Len(ps) |-> ps[k].value]

\* Mutant of PromiseAllNew: the join of no promises is never fulfilled.
PromiseAllNewPending(ps) == Pending

\* Promise.all of the promises just created.
PromiseAllNew(ps) == IF Len(ps) = 0 THEN Fulfilled(Undefined) ELSE Pending

-----------------------------------------------------------------------------
\* State

Frame0 ==
    [initialContent |-> [defined |-> FALSE, content |-> Undefined],
     cleanedContent |-> Undefined,
     productName |-> Undefined,
     searchResults |-> [hasResults |-> FALSE, searchResults |-> <<>>],
     limitedResults |-> <<>>,
     contents |-> <<>>,
     images |-> <<>>,
     bestImage |-> Undefined,
     summarizedContents |-> <<>>,
     combinedDetails |-> <<>>,
     generated |-> NoObject,
     object |-> NoObject]

GoodKey == Str(<<Tok("key", 1)>>)
Headers == {Undefined, GoodKey, Str(<<Tok("key", 2)>>)}
Urls == {Undefined, Null, EmptyStr, Str(<<Tok("url", 1)>>)}

\* A request: a POST with a JSON body that parses (and may hold a url), a
\* POST with a body that does not parse, or a preflight OPTIONS request.
Methods == {"POST", "OPTIONS"}
Bodies == {"parses", "malformed"}

InitOf(live) ==
    /\ apiKeyEnv \in {Undefined, GoodKey}
    /\ hits = 0
    /\ method \in [Reqs -> Methods]
    /\ body \in [Reqs -> Bodies]
    /\ header \in [Reqs -> Headers]
    /\ url \in [Reqs -> Urls]
    /\ \A r \in Reqs :
            /\ method[r] = "OPTIONS" => body[r] = "parses"
            /\ (method[r] = "OPTIONS" \/ body[r] = "malformed")
                => url[r] = Undefined
    /\ \A r \in Reqs \ live :
            /\ method[r] = "POST" /\ body[r] = "parses"
            /\ header[r] = Undefined /\ url[r] = Undefined
    /\ pc = [r \in Reqs |-> IF r \in live THEN "cors" ELSE "idle"]
    /\ handlerRuns = [r \in Reqs |-> 0]
    /\ frame = [r \in Reqs |-> Frame0]
    /\ sums = [r \in Reqs |-> <<>>]
    /\ all = [r \in Reqs |-> Pending]
    /\ order = [r \in Reqs |-> <<>>]
    /\ calls = [r \in Reqs |-> [f \in Fns |-> <<>>]]
    /\ st = [r \in Reqs |-> [f \in Fns |-> "idle"]]
    /\ thrown = [r \in Reqs |-> [f \in Fns |-> NoErr]]
    /\ resp = [r \in Reqs |-> <<>>]

Init == InitOf({1})
InitPair == InitOf({1, 2})

\* Mutant of Locals: bestImage is declared at module level, so that a request
\* reads the image selected while another request was handled.
LocalsSharedImage(r) ==
    LET others == {q \in Reqs \ {r} :
                    st[q]["selectBestImageWithVision"] = "returned"}
    IN  IF others = {} THEN frame[r]
        ELSE [frame[r] EXCEPT
                !.bestImage = frame[CHOOSE q \in others : TRUE].bestImage]

\* The const declarations of the handler: every invocation has its own.
Locals(r) == frame[r]

-----------------------------------------------------------------------------
\* Steps

Call(c, r, f, a) == [c EXCEPT ![r][f] = Append(@, a)]
Settle(s, r, f, o) ==
    [s EXCEPT ![r][f] = IF o.threw THEN "threw" ELSE "returned"]

\* res.status(..).json(..) as the last thing the request does
Respond(r, response) ==
    /\ resp' = [resp EXCEPT ![r] = Append(@, response)]
    /\ pc' = [pc EXCEPT ![r] = "done"]

\* The catch block of the handler.
Catch(r, e) == Respond(r, R500(e))

\* app.use(cors(corsOptions)): a preflight request is answered at once.
Cors(r) ==
    /\ pc[r] = "cors"
    /\ IF method[r] = "OPTIONS"
       THEN Respond(r, R204)
       ELSE /\ pc' = [pc EXCEPT ![r] = "json"]
            /\ UNCHANGED resp
    /\ UNCHANGED <<thrown, order, apiKeyEnv, hits, method, body, header, url,
                   handlerRuns, frame, sums, all, calls, st>>

\* app.use(express.json()): a body that does not parse is answered 400 by
\* the error handler; helmet, registered next, only sets headers.
JsonBody(r) ==
    /\ pc[r] = "json"
    /\ IF body[r] = "malformed"
       THEN Respond(r, R400Body)
       ELSE /\ pc' = [pc EXCEPT ![r] = "auth"]
            /\ UNCHANGED resp
    /\ UNCHANGED <<thrown, order, apiKeyEnv, hits, method, body, header, url,
                   handlerRuns, frame, sums, all, calls, st>>

\* app.use("/api", authenticateApiKey)
AuthenticateApiKey(r) ==
    /\ pc[r] = "auth"
    /\ IF Unauthorized(header[r], apiKeyEnv)
       THEN Respond(r, R401)
       ELSE /\ pc' = [pc EXCEPT ![r] = "limiter"]
            /\ UNCHANGED resp
    /\ UNCHANGED <<thrown, order, apiKeyEnv, hits, method, body, header, url,
                   handlerRuns, frame, sums, all, calls, st>>

\* app.use(limiter)
Limiter(r) ==
    /\ pc[r] = "limiter"
    /\ hits' = hits + 1
    /\ IF hits + 1 > RateMax
       THEN Respond(r, R429)
       ELSE /\ pc' = [pc EXCEPT ![r] = "handler"]
            /\ UNCHANGED resp
    /\ UNCHANGED <<thrown, order, apiKeyEnv, method, body, header, url,
                   handlerRuns, frame, sums, all, calls, st>>

\* Mutant of HandlerStart: no return after the 400 response.
HandlerStartNoReturn(r) ==
    /\ pc[r] = "handler"
    /\ handlerRuns' = [handlerRuns EXCEPT ![r] = @ + 1]
    /\ resp' = [resp EXCEPT ![r] =
                    IF UrlMissing(url[r]) THEN Append(@, R400) ELSE @]
    /\ calls' = Call(calls, r, "scrapeUrl", <<url[r]>>)
    /\ st' = [st EXCEPT ![r]["scrapeUrl"] = "pending"]
    /\ pc' = [pc EXCEPT ![r] = "scrapeUrl"]
    /\ UNCHANGED <<thrown, order, apiKeyEnv, hits, method, body, header, url,
                   frame, sums, all>>

\* The handler up to its first await: the url check and the call of scrapeUrl.
HandlerStart(r) ==
    /\ pc[r] = "handler"
    /\ handlerRuns' = [handlerRuns EXCEPT ![r] = @ + 1]
    /\ IF UrlMissing(url[r])
       THEN /\ Respond(r, R400)
            /\ UNCHANGED <<calls, st>>
       ELSE /\ calls' = Call(calls, r, "scrapeUrl", <<url[r]>>)
            /\ st' = [st EXCEPT ![r]["scrapeUrl"] = "pending"]
            /\ pc' = [pc EXCEPT ![r] = "scrapeUrl"]
            /\ UNCHANGED resp
    /\ UNCHANGED <<thrown, order, apiKeyEnv, hits, method, body, header, url,
                   frame, sums, all>>

\* await scrapeUrl(url) settles; the content check; the call of cleanContent.
ScrapeUrlSettle(r) ==
    /\ pc[r] = "scrapeUrl"
    /\ \E o \in ScrapeUrlOutcomes :
        /\ thrown' = [thrown EXCEPT ![r]["scrapeUrl"] = o.error]
        /\ IF o.threw
           THEN /\ Catch(r, o.error)
                /\ st' = Settle(st, r, "scrapeUrl", o)
                /\ UNCHANGED <<frame, calls>>
           ELSE /\ frame' = [frame EXCEPT ![r].initialContent = o.value]
                /\ IF NoContent(o.value)
                   THEN /\ Catch(r, Err("Failed to scrape initial URL"))
                        /\ st' = Settle(st, r, "scrapeUrl", o)
                        /\ UNCHANGED calls
                   ELSE /\ calls' = Call(calls, r, "cleanContent",
                                         <<o.value.content>>)
                        /\ st' = [Settle(st, r, "scrapeUrl", o)
                                    EXCEPT ![r]["cleanContent"] = "pending"]
                        /\ pc' = [pc EXCEPT ![r] = "cleanContent"]
                        /\ UNCHANGED resp
    /\ UNCHANGED <<order, apiKeyEnv, hits, method, body, header, url,
                   handlerRuns, sums, all>>

\* await cleanContent(..) settles; the call of getProductName.
CleanContentSettle(r) ==
    /\ pc[r] = "cleanContent"
    /\ \E o \in CleanOutcomes(Locals(r).initialContent.content) :
        /\ thrown' = [thrown EXCEPT ![r]["cleanContent"] = o.error]
        /\ IF o.threw
           THEN /\ Catch(r, o.error)
                /\ st' = Settle(st, r, "cleanContent", o)
                /\ UNCHANGED <<frame, calls>>
           ELSE /\ frame' = [frame EXCEPT ![r].cleanedContent = o.value]
                /\ calls' = Call(calls, r, "getProductName", <<o.value>>)
                /\ st' = [Settle(st, r, "cleanContent", o)
                            EXCEPT ![r]["getProductName"] = "pending"]
                /\ pc' = [pc EXCEPT ![r] = "getProductName"]
                /\ UNCHANGED resp
    /\ UNCHANGED <<order, apiKeyEnv, hits, method, body, header, url,
                   handlerRuns, sums, all>>

\* Mutant of GetProductNameSettle: a getProductName call that throws is
\* caught on the spot and the handler goes on without a name.
GetProductNameSettleFallback(r, names) ==
    /\ pc[r] = "getProductName"
    /\ \E o \in NameOutcomes(Locals(r).cleanedContent, names) :
        /\ thrown' = [thrown EXCEPT ![r]["getProductName"] = o.error]
        /\ frame' = [frame EXCEPT ![r].productName = o.value]
        /\ calls' = Call(calls, r, "searchGoogle", <<o.value>>)
        /\ st' = [Settle(st, r, "getProductName", o)
                    EXCEPT ![r]["searchGoogle"] = "pending"]
        /\ pc' = [pc EXCEPT ![r] = "searchGoogle"]
        /\ UNCHANGED resp
    /\ UNCHANGED <<order, apiKeyEnv, hits, method, body, header, url,
                   handlerRuns, sums, all>>

\* await getProductName(..) settles; the call of searchGoogle.
GetProductNameSettle(r, names) ==
    /\ pc[r] = "getProductName"
    /\ \E o \in NameOutcomes(Locals(r).cleanedContent, names) :
        /\ thrown' = [thrown EXCEPT ![r]["getProductName"] = o.error]
        /\ IF o.threw
           THEN /\ Catch(r, o.error)
                /\ st' = Settle(st, r, "getProductName", o)
                /\ UNCHANGED <<frame, calls>>
           ELSE /\ frame' = [frame EXCEPT ![r].productName = o.value]
                /\ calls' = Call(calls, r, "searchGoogle", <<o.value>>)
                /\ st' = [Settle(st, r, "getProductName", o)
                            EXCEPT ![r]["searchGoogle"] = "pending"]
                /\ pc' = [pc EXCEPT ![r] = "searchGoogle"]
                /\ UNCHANGED resp
    /\ UNCHANGED <<order, apiKeyEnv, hits, method, body, header, url,
                   handlerRuns, sums, all>>

\* Mutant of SearchGoogleSettle: a result without searchResults counts as an
\* empty list ((searchResults.searchResults ?? []).slice(0, 7)).
SearchGoogleSettleDefaulting(r, maxn) ==
    /\ pc[r] = "searchGoogle"
    /\ \E o \in SearchOutcomes(Locals(r).productName, maxn) :
        /\ thrown' = [thrown EXCEPT ![r]["searchGoogle"] = o.error]
        /\ st' = [Settle(st, r, "searchGoogle", o)
                    EXCEPT ![r]["scrapeSearchResults"] =
                        IF o.threw THEN @ ELSE "pending"]
        /\ IF o.threw
           THEN /\ Catch(r, o.error)
                /\ UNCHANGED <<frame, calls>>
           ELSE /\ frame' = [frame EXCEPT
                    ![r].searchResults = o.value,
                    ![r].limitedResults =
                        LimitedResults(o.value.searchResults)]
                /\ calls' = Call(calls, r, "scrapeSearchResults",
                                 <<LimitedResults(o.value.searchResults),
                                   Locals(r).productName>>)
                /\ pc' = [pc EXCEPT ![r] = "scrapeSearchResults"]
                /\ UNCHANGED resp
    /\ UNCHANGED <<order, apiKeyEnv, hits, method, body, header, url,
                   handlerRuns, sums, all>>

\* await searchGoogle(..) settles; the slice; the call of scrapeSearchResults.
\* Slicing the searchResults of an object that has none throws a TypeError.
SearchGoogleSettle(r, maxn) ==
    /\ pc[r] = "searchGoogle"
    /\ \E o \in SearchOutcomes(Locals(r).productName, maxn) :
        /\ thrown' = [thrown EXCEPT ![r]["searchGoogle"] = o.error]
        /\ st' = [Settle(st, r, "searchGoogle", o)
                    EXCEPT ![r]["scrapeSearchResults"] =
                        IF o.threw \/ ~o.value.hasResults
                        THEN @ ELSE "pending"]
        /\ IF o.threw
           THEN /\ Catch(r, o.error)
                /\ UNCHANGED <<frame, calls>>
           ELSE IF ~o.value.hasResults
           THEN /\ frame' = [frame EXCEPT ![r].searchResults = o.value]
                /\ Catch(r, Err("Cannot read properties of undefined"))
                /\ UNCHANGED calls
           ELSE /\ frame' = [frame EXCEPT
                    ![r].searchResults = o.value,
                    ![r].limitedResults =
                        LimitedResults(o.value.searchResults)]
                /\ calls' = Call(calls, r, "scrapeSearchResults",
                                 <<LimitedResults(o.value.searchResults),
                                   Locals(r).productName>>)
                /\ pc' = [pc EXCEPT ![r] = "scrapeSearchResults"]
                /\ UNCHANGED resp
    /\ UNCHANGED <<order, apiKeyEnv, hits, method, body, header, url,
                   handlerRuns, sums, all>>

\* Mutant of ScrapeSearchResultsSettle: an empty batch is an error
\* (if (contents.length === 0) throw ...).
ScrapeSearchResultsSettleNotEmpty(r, maxd, maxi) ==
    /\ pc[r] = "scrapeSearchResults"
    /\ \E out \in ScrapeBatchOutcomes(Locals(r).limitedResults,
                                      Locals(r).productName, maxd, maxi) :
        /\ frame' = [frame EXCEPT ![r].contents = out.contents,
                                  ![r].images = out.images]
        /\ IF out.contents = <<>>
           THEN /\ Catch(r, Err("No content scraped"))
                /\ st' = [st EXCEPT ![r]["scrapeSearchResults"] = "returned"]
                /\ UNCHANGED calls
           ELSE /\ calls' = Call(calls, r, "selectBestImageWithVision",
                                 <<out.images, Locals(r).productName>>)
                /\ st' = [st EXCEPT
                        ![r]["scrapeSearchResults"] = "returned",
                        ![r]["selectBestImageWithVision"] = "pending"]
                /\ pc' = [pc EXCEPT ![r] = "selectBestImageWithVision"]
                /\ UNCHANGED resp
    /\ UNCHANGED <<thrown, order, apiKeyEnv, hits, method, body, header, url,
                   handlerRuns, sums, all>>

\* Mutant of ScrapeSearchResultsSettle: the summarizeContent calls are issued
\* before selectBestImageWithVision is awaited.
ScrapeSearchResultsSettleSummarizing(r, maxd, maxi) ==
    /\ pc[r] = "scrapeSearchResults"
    /\ \E out \in ScrapeBatchOutcomes(Locals(r).limitedResults,
                                      Locals(r).productName, maxd, maxi) :
        /\ frame' = [frame EXCEPT ![r].contents = out.contents,
                                  ![r].images = out.images]
        /\ calls' = [calls EXCEPT
                ![r]["summarizeContent"] = @ \o SummarizeArgs(frame'[r]),
                ![r]["selectBestImageWithVision"] =
                    Append(@, <<out.images, Locals(r).productName>>)]
    /\ st' = [st EXCEPT ![r]["scrapeSearchResults"] = "returned",
                        ![r]["selectBestImageWithVision"] = "pending"]
    /\ pc' = [pc EXCEPT ![r] = "selectBestImageWithVision"]
    /\ UNCHANGED <<thrown, order, apiKeyEnv, hits, method, body, header, url,
                   handlerRuns, sums, all, resp>>

\* await scrapeSearchResults(..) settles; the call of
\* selectBestImageWithVision.
ScrapeSearchResultsSettle(r, maxd, maxi) ==
    /\ pc[r] = "scrapeSearchResults"
    /\ \E out \in ScrapeBatchOutcomes(Locals(r).limitedResults,
                                      Locals(r).productName, maxd, maxi) :
        /\ frame' = [frame EXCEPT ![r].contents = out.contents,
                                  ![r].images = out.images]
        /\ calls' = Call(calls, r, "selectBestImageWithVision",
                         <<out.images, Locals(r).productName>>)
    /\ st' = [st EXCEPT ![r]["scrapeSearchResults"] = "returned",
                        ![r]["selectBestImageWithVision"] = "pending"]
    /\ pc' = [pc EXCEPT ![r] = "selectBestImageWithVision"]
    /\ UNCHANGED <<thrown, order, apiKeyEnv, hits, method, body, header, url,
                   handlerRuns, sums, all, resp>>

\* Mutant of SelectBestImageSettle: a selectBestImageWithVision call that
\* throws is caught on the spot and the handler goes on without an image.
SelectBestImageSettleTolerant(r) ==
    /\ pc[r] = "selectBestImageWithVision"
    /\ \E o \in SelectOutcomes(Locals(r).images, Locals(r).productName) :
        /\ thrown' = [thrown EXCEPT
                        ![r]["selectBestImageWithVision"] = o.error]
        /\ st' = Settle(st, r, "selectBestImageWithVision", o)
        /\ frame' = [frame EXCEPT ![r].bestImage =
                        IF o.threw THEN Null ELSE o.value]
        /\ calls' = [calls EXCEPT ![r]["summarizeContent"] =
                        @ \o SummarizeArgs(Locals(r))]
        /\ sums' = [sums EXCEPT ![r] =
                    [k \in 1..Len(SummarizeArgs(Locals(r))) |-> Pending]]
        /\ all' = [all EXCEPT ![r] = PromiseAllNew(sums'[r])]
        /\ pc' = [pc EXCEPT ![r] = "summarize"]
        /\ UNCHANGED resp
    /\ UNCHANGED <<order, apiKeyEnv, hits, method, body, header, url,
                   handlerRuns>>

\* await selectBestImageWithVision(..) settles; contents.map issues one
\* summarizeContent call per content and Promise.all joins them.
SelectBestImageSettle(r) ==
    /\ pc[r] = "selectBestImageWithVision"
    /\ \E o \in SelectOutcomes(Locals(r).images, Locals(r).productName) :
        /\ thrown' = [thrown EXCEPT
                        ![r]["selectBestImageWithVision"] = o.error]
        /\ st' = Settle(st, r, "selectBestImageWithVision", o)
        /\ IF o.threw
           THEN /\ Catch(r, o.error)
                /\ UNCHANGED <<frame, calls, sums, all>>
           ELSE /\ frame' = [frame EXCEPT ![r].bestImage = o.value]
                /\ calls' = [calls EXCEPT ![r]["summarizeContent"] =
                                @ \o SummarizeArgs(Locals(r))]
                /\ sums' = [sums EXCEPT ![r] =
                    [k \in 1..Len(SummarizeArgs(Locals(r))) |->
                        Pending]]
                /\ all' = [all EXCEPT ![r] = PromiseAllNew(sums'[r])]
                /\ pc' = [pc EXCEPT ![r] = "summarize"]
                /\ UNCHANGED resp
    /\ UNCHANGED <<order, apiKeyEnv, hits, method, body, header, url,
                   handlerRuns>>

\* One summarizeContent call settles, whether or not the handler still waits.
\* With rec the order of settling is recorded.
SummarizeContentSettle(r, k, rec) ==
    /\ k \in 1..Len(sums[r])
    /\ sums[r][k].state = "pending"
    /\ \E o \in SummarizeOutcomes(calls[r]["summarizeContent"][k][1]) :
        /\ sums' = [sums EXCEPT ![r][k] = PromiseOf(o)]
        /\ all' = [all EXCEPT ![r] = PromiseAll(@, sums'[r], k)]
    /\ order' = [order EXCEPT ![r] = IF rec THEN Append(@, k) ELSE @]
    /\ UNCHANGED <<thrown, apiKeyEnv, hits, method, body, header, url, pc,
                   handlerRuns, frame, calls, st, resp>>

\* await Promise.all(..) settles: a rejection goes to the catch block;
\* otherwise filter, join and the call of generateObject.
PromiseAllSettle(r) ==
    /\ pc[r] = "summarize"
    /\ all[r].state # "pending"
    /\ IF all[r].state = "rejected"
       THEN /\ Catch(r, all[r].reason)
            /\ UNCHANGED <<frame, calls, st>>
       ELSE LET summarized == AllValues(sums[r], order[r])
                f == [Locals(r) EXCEPT
                        !.summarizedContents = summarized,
                        !.combinedDetails = CombinedDetails(summarized)]
            IN  /\ frame' = [frame EXCEPT ![r] = f]
                /\ calls' = Call(calls, r, "generateObject", <<SynthInput(f)>>)
                /\ st' = [st EXCEPT ![r]["generateObject"] = "pending"]
                /\ pc' = [pc EXCEPT ![r] = "generateObject"]
                /\ UNCHANGED resp
    /\ UNCHANGED <<thrown, order, apiKeyEnv, hits, method, body, header, url,
                   handlerRuns, sums, all>>

\* Mutant of GenerateObjectSettle: a generateObject call that throws is
\* repeated once before the handler gives up.
GenerateObjectSettleRetrying(r) ==
    /\ pc[r] = "generateObject"
    /\ \E o \in GenerateOutcomes(calls[r]["generateObject"][1][1]) :
        /\ thrown' = [thrown EXCEPT ![r]["generateObject"] = o.error]
        /\ IF o.threw /\ Len(calls[r]["generateObject"]) < 2
           THEN /\ calls' = Call(calls, r, "generateObject",
                                 calls[r]["generateObject"][1])
                /\ UNCHANGED <<st, frame, resp, pc>>
           ELSE /\ st' = Settle(st, r, "generateObject", o)
                /\ UNCHANGED calls
                /\ IF o.threw
                   THEN /\ Catch(r, o.error)
                        /\ UNCHANGED frame
                   ELSE /\ frame' = [frame EXCEPT
                            ![r].generated = o.value,
                            ![r].object =
                                Assemble(o.value, Locals(r).bestImage)]
                        /\ Respond(r, R200(frame'[r].object))
    /\ UNCHANGED <<order, apiKeyEnv, hits, method, body, header, url,
                   handlerRuns, sums, all>>

\* await generateObject(..) settles; the image is attached and the object sent.
GenerateObjectSettle(r) ==
    /\ pc[r] = "generateObject"
    /\ \E o \in GenerateOutcomes(calls[r]["generateObject"][1][1]) :
        /\ thrown' = [thrown EXCEPT ![r]["generateObject"] = o.error]
        /\ st' = Settle(st, r, "generateObject", o)
        /\ IF o.threw
           THEN /\ Catch(r, o.error)
                /\ UNCHANGED frame
           ELSE /\ frame' = [frame EXCEPT
                    ![r].generated = o.value,
                    ![r].object = Assemble(o.value, Locals(r).bestImage)]
                /\ Respond(r, R200(frame'[r].object))
    /\ UNCHANGED <<order, apiKeyEnv, hits, method, body, header, url,
                   handlerRuns, sums, all, calls>>

Step(r, names, maxn, maxd, maxi, rec) ==
    \/ Cors(r)
    \/ JsonBody(r)
    \/ AuthenticateApiKey(r)
    \/ Limiter(r)
    \/ HandlerStart(r)
    \/ ScrapeUrlSettle(r)
    \/ CleanContentSettle(r)
    \/ GetProductNameSettle(r, names)
    \/ SearchGoogleSettle(r, maxn)
    \/ ScrapeSearchResultsSettle(r, maxd, maxi)
    \/ SelectBestImageSettle(r)
    \/ \E k \in 1..TopK : SummarizeContentSettle(r, k, rec)
    \/ PromiseAllSettle(r)
    \/ GenerateObjectSettle(r)

Next == \E r \in Reqs : Step(r, Names, MaxResults, MaxDocs, MaxImages, FALSE)

NextOrder ==
    \E r \in Reqs : Step(r, PairNames, MaxResults, MaxDocs, MaxImages, TRUE)

NextPair ==
    \E r \in Reqs :
        Step(r, PairNames, PairMaxResults, PairMaxDocs, PairMaxImages, FALSE)

\* One request.
Spec == Init /\ [][Next]_vars

\* One request, with the order in which its summaries settle recorded.
SpecOrder == Init /\ [][NextOrder]_vars

\* Two requests handled concurrently.
SpecPair == InitPair /\ [][NextPair]_vars

\* One request, every call of which settles: a call that is pending settles
\* in the end, and the event loop runs every continuation that is ready.
\* Each step of a request is one of the two, and stays possible until taken.
StepFair(r) ==
    Step(r, PairNames, MaxResults, FairMaxDocs, MaxImages, FALSE)

NextFair == \E r \in Reqs : StepFair(r)

SpecFair ==
    /\ Init
    /\ [][NextFair]_vars
    /\ \A r \in Reqs : WF_vars(StepFair(r))

-----------------------------------------------------------------------------
\* Properties

NCalls(r, f) == Len(calls[r][f])
Collaborators == Fns
Responded(r, status) == Len(resp[r]) = 1 /\ resp[r][1].status = status
SumStates(r) == {sums[r][k].state : k \in 1..Len(sums[r])}

\* C1: a request whose body has a missing or empty url is answered 400
\* "URL is required" by the handler, and no collaborator is called for it.
C1_MissingUrlRejected ==
    \A r \in Reqs :
        (handlerRuns[r] > 0 /\ (url[r].t # "string" \/ url[r].v = <<>>))
        => /\ resp[r] = <<R400>>
           /\ resp[r][1].status = 400 /\ resp[r][1].error = "URL is required"
           /\ \A f \in Collaborators : NCalls(r, f) = 0

C1_Witness ==
    \E r \in Reqs :
        handlerRuns[r] = 1 /\ url[r] = EmptyStr /\ resp[r] = <<R400>>

\* C2: when extraction fails (scrapeUrl throws, returns nothing, or returns
\* an object with no or an empty content) the request ends with one failure
\* response, and search, batch scrape, summarize and synthesize are not called.
ExtractionFailed(r) ==
    \/ st[r]["scrapeUrl"] = "threw"
    \/ /\ st[r]["scrapeUrl"] = "returned"
       /\ \/ ~frame[r].initialContent.defined
          \/ frame[r].initialContent.content.t # "string"
          \/ frame[r].initialContent.content.v = <<>>

C2_ExtractionFailureIsFatal ==
    \A r \in Reqs :
        ExtractionFailed(r)
        => /\ Responded(r, 500)
           /\ pc[r] = "done"
           /\ \A f \in {"searchGoogle", "scrapeSearchResults",
                        "summarizeContent", "generateObject"} :
                NCalls(r, f) = 0

C2_Witness ==
    \E r \in Reqs :
        /\ st[r]["scrapeUrl"] = "returned"
        /\ frame[r].initialContent = [defined |-> TRUE, content |-> EmptyStr]
        /\ Responded(r, 500)

\* C3: the results handed to scrapeSearchResults are the first min(7, n) of
\* the n results the search returned, in their order; never more than 7
\* are handed over, and fewer than 7 results are handed over as they are.
C3_FirstSevenScraped ==
    \A r \in Reqs :
        /\ NCalls(r, "scrapeSearchResults") <= 1
        /\ \A c \in 1..NCalls(r, "scrapeSearchResults") :
                Len(calls[r]["scrapeSearchResults"][c][1]) <= 7
        /\ (st[r]["searchGoogle"] = "returned"
                /\ frame[r].searchResults.hasResults)
           => LET found == frame[r].searchResults.searchResults
                  n == Len(found)
                  kept == IF n < 7 THEN n ELSE 7
              IN  /\ NCalls(r, "scrapeSearchResults") = 1
                  /\ Len(calls[r]["scrapeSearchResults"][1][1]) = kept
                  /\ \A i \in 1..kept :
                        calls[r]["scrapeSearchResults"][1][1][i] = found[i]

C3_Witness ==
    \E r \in Reqs :
        /\ Len(frame[r].searchResults.searchResults) > 7
        /\ st[r]["scrapeSearchResults"] = "returned"
        /\ Len(calls[r]["scrapeSearchResults"][1][1]) = 7

\* C4: a rejected summarizeContent call is tolerated: the handler waits for
\* every summarization to settle, then calls generateObject with the
\* surviving summaries; no failure response comes of the rejection.
C4_SummarizerFailureTolerated ==
    \A r \in Reqs :
        ("rejected" \in SumStates(r) /\ pc[r] # "summarize")
        => /\ "pending" \notin SumStates(r)
           /\ NCalls(r, "generateObject") = 1
           /\ (st[r]["generateObject"] = "returned" => Responded(r, 200))

\* The results of limitedResults that contributed no content.
FailedToScrape(r) ==
    {frame[r].limitedResults[k] : k \in 1..Len(frame[r].limitedResults)}
    \ {frame[r].contents[k].src : k \in 1..Len(frame[r].contents)}

\* The summaries joined into combinedDetails.
JoinedSummaries(r) ==
    SelectSeq(frame[r].combinedDetails, LAMBDA tok : tok # Sep[1])

LaterStageFailed(r) ==
    \/ st[r]["selectBestImageWithVision"] = "threw"
    \/ "rejected" \in SumStates(r)
    \/ st[r]["generateObject"] = "threw"

\* C5: when exactly one of the N results handed to scrapeSearchResults fails
\* to scrape, at most N-1 contents are summarized, at most N-1 summaries are
\* joined, and the request ends in failure only if a later stage failed.
C5_OneScrapeFailureTolerated ==
    \A r \in Reqs :
        (st[r]["scrapeSearchResults"] = "returned"
            /\ Cardinality(FailedToScrape(r)) = 1)
        => LET N == Len(frame[r].limitedResults)
           IN  /\ Len(frame[r].contents) <= N - 1
               /\ NCalls(r, "summarizeContent") <= N - 1
               /\ Len(frame[r].summarizedContents) <= N - 1
               /\ Len(JoinedSummaries(r)) <= N - 1
               /\ pc[r] = "done"
                  => \/ Responded(r, 200)
                     \/ Responded(r, 500) /\ LaterStageFailed(r)

C5_Witness ==
    \E r \in Reqs :
        /\ Len(frame[r].limitedResults) = 3
        /\ Cardinality(FailedToScrape(r)) = 1
        /\ Len(JoinedSummaries(r)) = 2
        /\ Responded(r, 200)

\* Every result handed to scrapeSearchResults failed to scrape.
AllFailedToScrape(r) ==
    /\ st[r]["scrapeSearchResults"] = "returned"
    /\ frame[r].contents = <<>>

EmptyInputsCalls(r) ==
    /\ frame[r].images = <<>>
    /\ calls[r]["selectBestImageWithVision"]
            = << <<<<>>, frame[r].productName>> >>
    /\ NCalls(r, "summarizeContent") = 0

SynthesisDecides(r) ==
    /\ NCalls(r, "generateObject") = 1
    /\ calls[r]["generateObject"][1][1].prompt
            = Prompt(frame[r].productName, <<>>)
    /\ st[r]["generateObject"] = "returned" => Responded(r, 200)
    /\ st[r]["generateObject"] = "threw" => Responded(r, 500)
    /\ pc[r] = "done" => st[r]["generateObject"] \in {"returned", "threw"}

C7_StagesInOrder ==
    \A r \in Reqs :
        /\ NCalls(r, "scrapeUrl") > 0 => handlerRuns[r] = 1
        /\ NCalls(r, "cleanContent") > 0 => st[r]["scrapeUrl"] = "returned"
        /\ NCalls(r, "getProductName") > 0
            => st[r]["cleanContent"] = "returned"
        /\ NCalls(r, "searchGoogle") > 0
            => st[r]["getProductName"] = "returned"
        /\ NCalls(r, "scrapeSearchResults") > 0
            => st[r]["searchGoogle"] = "returned"
        /\ NCalls(r, "selectBestImageWithVision") > 0
            => st[r]["scrapeSearchResults"] = "returned"
        /\ NCalls(r, "summarizeContent") > 0
            => st[r]["scrapeSearchResults"] = "returned"
        /\ NCalls(r, "generateObject") > 0
            => /\ Len(sums[r]) = Len(frame[r].contents)
               /\ \A k \in 1..Len(sums[r]) : sums[r][k].state # "pending"
        /\ (Len(resp[r]) > 0 /\ resp[r][1].status = 200)
            => st[r]["generateObject"] = "returned"

C7_Witness ==
    \E r \in Reqs :
        /\ Len(sums[r]) = 2
        /\ SumStates(r) = {"fulfilled"}
        /\ st[r]["generateObject"] = "pending"

\* C8: the image of a returned record is the value the image selection
\* returned, whatever image generateObject produced; when the selection
\* returned no image the record has none and the request still succeeds.
C8_ImageIsTheSelectedOne ==
    \A r \in Reqs :
        /\ (Len(resp[r]) > 0 /\ resp[r][1].status = 200)
            => resp[r][1].object.image = frame[r].bestImage
        /\ (st[r]["generateObject"] = "returned"
                /\ frame[r].bestImage = Null)
            => /\ Responded(r, 200)
               /\ resp[r][1].object.image = Null

C8_Witness ==
    \E r \in Reqs :
        /\ Responded(r, 200)
        /\ frame[r].generated.image = Str(<<Tok("img", 0)>>)
        /\ frame[r].bestImage = Null
        /\ resp[r][1].object.image = Null

\* Two runs whose collaborators answered alike, but for the images scraped
\* and the image selected, and in which the image selection did not throw.
DifferOnlyInImages(a, b) ==
    /\ url[a] = url[b]
    /\ frame[a].initialContent = frame[b].initialContent
    /\ frame[a].cleanedContent = frame[b].cleanedContent
    /\ frame[a].productName = frame[b].productName
    /\ frame[a].searchResults = frame[b].searchResults
    /\ frame[a].contents = frame[b].contents
    /\ sums[a] = sums[b]
    /\ st[a]["selectBestImageWithVision"] = "returned"
    /\ st[b]["selectBestImageWithVision"] = "returned"

WithoutImage(object) == [object EXCEPT !.image = Undefined]

\* C9: of two runs that differ only in the images scraped or in the image
\* selected, generateObject is given the same input in both, and if it
\* answers both alike the two records agree in every field but the image.
C9_ImageDoesNotInterfere ==
    \A a, b \in Reqs :
        (DifferOnlyInImages(a, b)
            /\ NCalls(a, "generateObject") = 1
            /\ NCalls(b, "generateObject") = 1)
        => /\ calls[a]["generateObject"] = calls[b]["generateObject"]
           /\ (Responded(a, 200) /\ Responded(b, 200)
                /\ frame[a].generated = frame[b].generated)
              => WithoutImage(resp[a][1].object)
                    = WithoutImage(resp[b][1].object)

C9_Witness ==
    /\ DifferOnlyInImages(1, 2)
    /\ frame[1].images = <<>> /\ frame[2].images # <<>>
    /\ frame[1].bestImage = Null /\ frame[2].bestImage # Null
    /\ Len(frame[1].contents) = 1
    /\ sums[1][1].state = "fulfilled" /\ sums[1][1].value.v # <<>>
    /\ Responded(1, 200) /\ Responded(2, 200)
    /\ frame[1].generated = frame[2].generated
    /\ resp[1][1].object # resp[2][1].object

\* C10: a request that reached the handler gets one response: the 400, the
\* synthesized record with the selected image, or one failure response; a
\* record is sent only after generateObject returned; never more than one
\* response is sent, however many sources failed.
C10_ExactlyOneResponse ==
    \A r \in Reqs :
        /\ Len(resp[r]) <= 1
        /\ pc[r] = "done" <=> Len(resp[r]) = 1
        /\ handlerRuns[r] <= 1
        /\ (handlerRuns[r] = 1 /\ pc[r] = "done")
            => \/ resp[r] = <<R400>>
               \/ /\ Responded(r, 200)
                  /\ st[r]["generateObject"] = "returned"
                  /\ resp[r][1].object
                        = [frame[r].generated EXCEPT
                            !.image = frame[r].bestImage]
               \/ /\ Responded(r, 500)
                  /\ resp[r][1].error = "Failed to scrape product information"
                  /\ resp[r][1].object = NoObject
                  /\ st[r]["generateObject"] # "returned"

C10_Witness ==
    \E r \in Reqs :
        /\ Len(sums[r]) = 2
        /\ SumStates(r) = {"rejected"}
        /\ resp[r] = <<R500(Err("summarizeContent failed"))>>

\* The summaries that are non-empty strings, in the order of their contents.
RECURSIVE SurvivorsUpTo(_, _)
SurvivorsUpTo(r, n) ==
    IF n = 0 THEN <<>>
    ELSE LET v == sums[r][n].value
         IN  IF v.t = "string" /\ v.v # <<>>
             THEN Append(SurvivorsUpTo(r, n - 1), v.v[1])
             ELSE SurvivorsUpTo(r, n - 1)

\* C11: whatever the order in which the summarizeContent calls settle, the
\* context given to generateObject holds the non-empty string summaries in
\* the order of their contents, with a blank-line separator between them.
C11_ContextInScrapeOrder ==
    \A r \in Reqs :
        NCalls(r, "generateObject") = 1
        => LET want == SurvivorsUpTo(r, Len(sums[r]))
               got == frame[r].combinedDetails
           IN  /\ Len(sums[r]) = Len(frame[r].contents)
               /\ \A k \in 1..Len(sums[r]) :
                    sums[r][k].value.t = "string" /\ sums[r][k].value.v # <<>>
                    => sums[r][k].value.v[1].id = frame[r].contents[k].src
               /\ Len(got) = IF want = <<>> THEN 0 ELSE 2 * Len(want) - 1
               /\ \A i \in 1..Len(got) :
                    got[i] = IF i % 2 = 1 THEN want[(i + 1) \div 2] ELSE Sep[1]
               /\ calls[r]["generateObject"][1][1].prompt
                    = Prompt(frame[r].productName, got)

C11_Witness ==
    \E r \in Reqs :
        /\ order[r] = <<2, 1>>
        /\ NCalls(r, "generateObject") = 1
        /\ frame[r].combinedDetails
            = <<Tok("sum", frame[r].contents[1].src), Sep[1],
                Tok("sum", frame[r].contents[2].src)>>


\* The error request r's catch block receives, read from r's own results:
\* what one of its calls threw, the Error the handler throws itself on a
\* page without content, the TypeError of slicing a missing searchResults,
\* or the reason Promise.all was rejected with.
Failure(r) ==
    IF \E f \in Fns : st[r][f] = "threw"
    THEN thrown[r][CHOOSE f \in Fns : st[r][f] = "threw"]
    ELSE IF st[r]["scrapeUrl"] = "returned"
            /\ ~Truthy(OptContent(frame[r].initialContent))
    THEN Err("Failed to scrape initial URL")
    ELSE IF st[r]["searchGoogle"] = "returned"
            /\ ~frame[r].searchResults.hasResults
    THEN Err("Cannot read properties of undefined")
    ELSE IF all[r].state = "rejected" THEN all[r].reason
    ELSE NoErr

\* The arguments of request r's call of f, from r's url and r's own results.
OwnInput(r, f) ==
    CASE f = "scrapeUrl" -> <<url[r]>>
      [] f = "cleanContent" -> <<frame[r].initialContent.content>>
      [] f = "getProductName" -> <<frame[r].cleanedContent>>
      [] f = "searchGoogle" -> <<frame[r].productName>>
      [] f = "scrapeSearchResults" ->
            <<Slice(frame[r].searchResults.searchResults, 0, 7),
              frame[r].productName>>
      [] f = "selectBestImageWithVision" ->
            <<frame[r].images, frame[r].productName>>
      [] f = "generateObject" ->
            <<[model |-> "gpt-4o-mini", schema |-> "ProductSchema",
               prompt |->
                 Prompt(frame[r].productName,
                        Join(SelectSeq([k \in 1..Len(sums[r]) |->
                                            sums[r][k].value],
                                       KeepSummary), Sep))]>>
      [] OTHER -> <<>>

\* The response of the handler to request r, from r's url and own results.
OwnResponse(r) ==
    IF ~Truthy(url[r]) THEN R400
    ELSE IF Failure(r) # NoErr THEN R500(Failure(r))
    ELSE R200([text |-> frame[r].generated.text,
               image |-> frame[r].bestImage])

\* C12: with two requests handled concurrently, in every interleaving each
\* request's collaborator inputs and its response are what its own url and
\* its own collaborators' results determine; nothing produced for the other
\* request enters them.
C12_NoStateAcrossRequests ==
    \A r \in Reqs :
        /\ \A f \in Fns \ {"summarizeContent"} :
                calls[r][f] \in {<<>>, <<OwnInput(r, f)>>}
        /\ calls[r]["summarizeContent"]
            \in {<<>>, [k \in 1..Len(frame[r].contents) |->
                            <<frame[r].contents[k].content>>]}
        /\ (handlerRuns[r] > 0 /\ pc[r] = "done")
            => resp[r] = <<OwnResponse(r)>>

\* Request 1 has been answered with the image selected for it while request
\* 2, for which no image was selected and other summaries were made, waits
\* for its synthesis.
C12_Witness ==
    /\ Responded(1, 200)
    /\ resp[1][1].object.image = Image(1)
    /\ pc[2] = "generateObject"
    /\ frame[2].bestImage = Null
    /\ frame[1].combinedDetails # frame[2].combinedDetails


\* C13 as claimed: the image selection is invoked only after the
\* summarization has settled, that is after a summarizeContent call was made
\* for every entry of contents and each of them has settled.
C13_SelectionAfterSummarization ==
    \A r \in Reqs :
        NCalls(r, "selectBestImageWithVision") > 0
            => /\ NCalls(r, "summarizeContent") = Len(frame[r].contents)
               /\ Len(sums[r]) = Len(frame[r].contents)
               /\ \A k \in 1..Len(sums[r]) : sums[r][k].state # "pending"

\* C13: the stages run in the order 1-4, 5, 6, 7, 8, 9, 10. The image
\* selection is invoked on completion of the scrape, while no summarizeContent
\* call has been made; the summarizeContent calls are made only after the
\* image selection has returned; generateObject is called only after the
\* image selection has returned and every summarizeContent call is fulfilled.
C13_SummarizationAfterSelection ==
    \A r \in Reqs :
        /\ NCalls(r, "selectBestImageWithVision") > 0
            => st[r]["scrapeSearchResults"] = "returned"
        /\ st[r]["selectBestImageWithVision"] \in {"pending", "threw"}
            => /\ NCalls(r, "summarizeContent") = 0
               /\ NCalls(r, "generateObject") = 0
        /\ NCalls(r, "summarizeContent") > 0
            => st[r]["selectBestImageWithVision"] = "returned"
        /\ NCalls(r, "generateObject") > 0
            => /\ st[r]["selectBestImageWithVision"] = "returned"
               /\ SumStates(r) \subseteq {"fulfilled"}

\* The image selection has returned and the two summarizeContent calls have
\* just been made.
C13_Witness ==
    \E r \in Reqs :
        /\ st[r]["selectBestImageWithVision"] = "returned"
        /\ NCalls(r, "summarizeContent") = 2
        /\ SumStates(r) = {"pending"}
        /\ pc[r] = "summarize"


\* C14: nothing is retried. Whatever fails, a request makes at most one call
\* of each of scrapeUrl, cleanContent, getProductName, searchGoogle,
\* scrapeSearchResults, selectBestImageWithVision and generateObject, and at
\* most one summarizeContent call per entry of contents: none before the
\* summarization is reached, and from then on exactly one per entry, the
\* k-th call being given the k-th content.
C14_NoStageRetried ==
    \A r \in Reqs :
        /\ handlerRuns[r] <= 1
        /\ \A f \in Fns \ {"summarizeContent"} : NCalls(r, f) <= 1
        /\ NCalls(r, "summarizeContent") \in {0, Len(frame[r].contents)}
        /\ \A k \in 1..NCalls(r, "summarizeContent") :
                calls[r]["summarizeContent"][k]
                    = <<frame[r].contents[k].content>>
        /\ pc[r] \in {"summarize", "generateObject"}
            => NCalls(r, "summarizeContent") = Len(frame[r].contents)
        /\ st[r]["selectBestImageWithVision"] = "returned"
            => NCalls(r, "summarizeContent") = Len(frame[r].contents)

\* The request has failed on a generateObject call that threw, after two
\* contents were summarized: every collaborator was called once, the
\* summarizer twice.
C14_Witness ==
    \E r \in Reqs :
        /\ Responded(r, 500)
        /\ st[r]["generateObject"] = "threw"
        /\ Len(frame[r].contents) = 2
        /\ NCalls(r, "summarizeContent") = 2
        /\ \A f \in Fns \ {"summarizeContent"} : NCalls(r, f) = 1


\* C15: a getProductName call that fails ends the request with the failure
\* response, and searchGoogle, scrapeSearchResults, selectBestImageWithVision,
\* summarizeContent and generateObject are never called for it; a
\* generateObject call that fails ends the request with the failure response,
\* which carries no record and no image, whatever image had been selected.
C15_NameAndSynthesisFailuresAreFatal ==
    \A r \in Reqs :
        /\ st[r]["getProductName"] = "threw"
            => /\ Responded(r, 500)
               /\ pc[r] = "done"
               /\ resp[r][1].object = NoObject
               /\ \A f \in {"searchGoogle", "scrapeSearchResults",
                            "selectBestImageWithVision", "summarizeContent",
                            "generateObject"} : NCalls(r, f) = 0
        /\ st[r]["generateObject"] = "threw"
            => /\ Responded(r, 500)
               /\ pc[r] = "done"
               /\ resp[r][1].object = NoObject
               /\ frame[r].object = NoObject

\* generateObject has thrown after an image had been selected and a summary
\* made: the request is answered 500 without a record.
C15_Witness ==
    \E r \in Reqs :
        /\ st[r]["generateObject"] = "threw"
        /\ frame[r].bestImage = Image(1)
        /\ frame[r].combinedDetails # <<>>
        /\ Responded(r, 500)


\* A failure was raised in the handler of request r after the url check: a
\* call threw, the page had no content, the search result had nothing to
\* slice, or the handler resumed from a rejected Promise.all.
FailureRaised(r) ==
    \/ \E f \in Fns : st[r][f] = "threw"
    \/ st[r]["scrapeUrl"] = "returned"
        /\ ~Truthy(OptContent(frame[r].initialContent))
    \/ st[r]["searchGoogle"] = "returned"
        /\ ~frame[r].searchResults.hasResults
    \/ all[r].state = "rejected" /\ pc[r] = "done"

\* C16: every failure raised in the handler after the url check is answered
\* by exactly one response, of status 500, with the error 'Failed to scrape
\* product information' and as details the message of what was raised when
\* that is an Error and 'Unknown error' otherwise; a page without content
\* gives the details 'Failed to scrape initial URL'. A 500 is sent for no
\* other reason.
C16_FailuresMapToOne500 ==
    \A r \in Reqs :
        /\ FailureRaised(r)
            => resp[r] =
                <<[status |-> 500,
                   error |-> "Failed to scrape product information",
                   details |-> IF Failure(r).isError
                               THEN Failure(r).message
                               ELSE "Unknown error",
                   object |-> NoObject]>>
        /\ (st[r]["scrapeUrl"] = "returned"
                /\ ~Truthy(OptContent(frame[r].initialContent)))
            => /\ Responded(r, 500)
               /\ resp[r][1].details = "Failed to scrape initial URL"
        /\ (\E k \in 1..Len(resp[r]) : resp[r][k].status = 500)
            => FailureRaised(r)

\* The image selection threw something that is not an Error: one 500 with
\* the details 'Unknown error'.
C16_Witness ==
    \E r \in Reqs :
        /\ st[r]["selectBestImageWithVision"] = "threw"
        /\ thrown[r]["selectBestImageWithVision"] = NonError
        /\ Responded(r, 500)
        /\ resp[r][1].details = "Unknown error"


\* The search of request r has failed: searchGoogle threw, or returned
\* something without a searchResults list to slice.
SearchFailed(r) ==
    \/ st[r]["searchGoogle"] = "threw"
    \/ st[r]["searchGoogle"] = "returned"
        /\ ~frame[r].searchResults.hasResults

\* C17: when searchGoogle throws, or returns a result without a searchResults
\* list, the request ends with a single response, the 500 failure response,
\* and scrapeSearchResults, selectBestImageWithVision, summarizeContent and
\* generateObject are never called for it.
C17_SearchFailureIsFatal ==
    \A r \in Reqs :
        SearchFailed(r)
            => /\ pc[r] = "done"
               /\ Len(resp[r]) = 1
               /\ resp[r][1].status = 500
               /\ resp[r][1].error = "Failed to scrape product information"
               /\ \A f \in {"scrapeSearchResults",
                            "selectBestImageWithVision", "summarizeContent",
                            "generateObject"} :
                        NCalls(r, f) = 0 /\ st[r][f] = "idle"

\* searchGoogle returned an object without searchResults: the slice threw
\* and the request was answered 500.
C17_Witness ==
    \E r \in Reqs :
        /\ st[r]["searchGoogle"] = "returned"
        /\ ~frame[r].searchResults.hasResults
        /\ Responded(r, 500)
        /\ resp[r][1].details = "Cannot read properties of undefined"


\* C18: when selectBestImageWithVision throws, the request is answered with
\* the failure response and neither summarizeContent nor generateObject is
\* ever called for it, however many contents were scraped.
C18_SelectorThrowIsFatal ==
    \A r \in Reqs :
        st[r]["selectBestImageWithVision"] = "threw"
            => /\ pc[r] = "done"
               /\ Responded(r, 500)
               /\ resp[r][1].object = NoObject
               /\ NCalls(r, "summarizeContent") = 0
               /\ sums[r] = <<>>
               /\ NCalls(r, "generateObject") = 0
               /\ st[r]["generateObject"] = "idle"

\* The image selection threw an Error after two contents and an image were
\* scraped: the request failed with that message, nothing was summarized.
C18_Witness ==
    \E r \in Reqs :
        /\ st[r]["selectBestImageWithVision"] = "threw"
        /\ Len(frame[r].contents) = 2
        /\ Len(frame[r].images) = 1
        /\ Responded(r, 500)
        /\ resp[r][1].details = "selectBestImageWithVision failed"
        /\ NCalls(r, "summarizeContent") = 0


\* The X-API-Key header of request r is absent or differs from API_KEY.
BadKey(r) == header[r] = Undefined \/ header[r] # apiKeyEnv

\* C19 as claimed: every request whose X-API-Key header is absent or differs
\* from API_KEY is answered 401 'Unauthorized'.
C19_BadKeyAnswered401 ==
    \A r \in Reqs :
        (BadKey(r) /\ pc[r] = "done")
            => /\ Len(resp[r]) = 1
               /\ resp[r][1].status = 401
               /\ resp[r][1].error = "Unauthorized"

\* C19: a request whose X-API-Key header is absent or differs from API_KEY,
\* also when no API_KEY is set, never gets past the authentication
\* middleware: the rate limiter does not count it, the route handler never
\* runs and no collaborator is called for it; unless the middleware
\* registered before the authentication has answered it (cors a preflight
\* request, the error handler a body express.json() rejects), its one
\* response is 401 'Unauthorized'.
C19_BadKeyStoppedByAuthentication ==
    \A r \in Reqs :
        BadKey(r)
            => /\ pc[r] \in {"idle", "cors", "json", "auth", "done"}
               /\ handlerRuns[r] = 0
               /\ \A f \in Fns : NCalls(r, f) = 0 /\ st[r][f] = "idle"
               /\ (\A q \in Reqs \ {r} : pc[q] = "idle") => hits = 0
               /\ pc[r] = "done"
                    => resp[r] =
                        <<IF method[r] = "OPTIONS" THEN R204
                          ELSE IF body[r] = "malformed" THEN R400Body
                          ELSE [status |-> 401, error |-> "Unauthorized",
                                details |-> "", object |-> NoObject]>>

\* No API_KEY is set and the POST request carries no X-API-Key header: it
\* has been answered 401 and the rate limiter has counted nothing.
C19_Witness ==
    \E r \in Reqs :
        /\ apiKeyEnv = Undefined
        /\ header[r] = Undefined
        /\ method[r] = "POST"
        /\ body[r] = "parses"
        /\ resp[r] = <<R401>>
        /\ hits = 0


\* The call the handler of request r is suspended on has been issued and is
\* pending: the one call of the stage it is in or, while it waits for the
\* summaries, a Promise.all that is settled or has a pending call.
WaitsOnIssuedCall(r) ==
    /\ pc[r] \in Fns => NCalls(r, pc[r]) = 1 /\ st[r][pc[r]] = "pending"
    /\ pc[r] = "summarize"
        => /\ NCalls(r, "summarizeContent") = Len(sums[r])
           /\ all[r].state = "pending" => "pending" \in SumStates(r)

\* C20: when every call issued for a request settles, the request gets its
\* response in the end, whatever the number of results and of failures;
\* meanwhile the handler is suspended only on calls it has issued, and a
\* request that has ended has its response.
C20_Terminates ==
    /\ [](\A r \in Reqs :
            /\ WaitsOnIssuedCall(r)
            /\ pc[r] = "done" => Len(resp[r]) = 1)
    /\ \A r \in Reqs :
            (pc[r] = "cors") ~> (pc[r] = "done" /\ Len(resp[r]) = 1)

\* Of seven retained results one was scraped and summarized, six failed: the
\* request got its record.
C20_Witness ==
    \E r \in Reqs :
        /\ Len(frame[r].limitedResults) = 7
        /\ Len(frame[r].contents) = 1
        /\ SumStates(r) = {"fulfilled"}
        /\ pc[r] = "done"
        /\ Responded(r, 200)

=============================================================================
